---------------------------- MODULE Spec2Model ----------------------------
(***************************************************************************)
(* ping_exporter: the request -> probe -> metrics pipeline.                *)
(*                                                                         *)
(* Two handler files are modelled side by side:                            *)
(*   internal/collector/icmp_collector.go  (per-request gauges, OnFinish)  *)
(*   unnamed/part_000                       (package-level gauges)         *)
(* Definitions of the second file carry the suffix Part000.                *)
(*                                                                         *)
(* Strings are sequences of one-character strings, so that ToLower, Atoi   *)
(* and ParseDuration are computed character by character.  time.Duration   *)
(* is counted in milliseconds (the inputs carry only the units ms, s, m,   *)
(* h and no fractions); gauges that the code sets from Seconds() hold the  *)
(* same duration, counted in milliseconds.                                 *)
(***************************************************************************)
EXTENDS Integers, Sequences, FiniteSets, TLC

VARIABLES
    query,        \* SpecParse: the raw query, a sequence of [k, v] pairs
    desc,         \* SpecParse: run -> descriptor parseParams returned (icmp_collector.go)
    descPart000,  \* SpecParse: descriptor parseParams of part_000 returned
    now,          \* the wall clock, in milliseconds since the process started
    req,          \* handler specs: request -> the handler invocation's locals
    gauges        \* part_000: the package-level gauges, shared by all requests

vars == <<query, desc, descPart000, now, req, gauges>>

---------------------------------------------------------------------------
(* Bounds of the model *)

\* Longest raw query, in key=value pairs.
MaxPairs == 2
\* Concurrent requests.
MaxReq == 2
\* Last instant of the wall clock.
MaxTime == 2

---------------------------------------------------------------------------
(* Program constants *)

defaultTimeout == 10000
defaultInterval == 1000
defaultCount == 5
defaultSize == 56
defaultTTL == 64
defaultProtocol == <<"i","p","4">>
defaultPacket == <<"i","c","m","p">>
maxPacketSize == 65507
minPacketSize == 24
maxPacketSizePart000 == 1024
minPacketSizePart000 == 24

---------------------------------------------------------------------------
(* Go's library functions, as far as the handlers use them *)

Upper == <<"A","B","C","D","E","F","G","H","I","J","K","L","M",
           "N","O","P","Q","R","S","T","U","V","W","X","Y","Z">>
Lower == <<"a","b","c","d","e","f","g","h","i","j","k","l","m",
           "n","o","p","q","r","s","t","u","v","w","x","y","z">>
Digits == <<"0","1","2","3","4","5","6","7","8","9">>

LowerChar(c) ==
    IF \E i \in 1..26 : Upper[i] = c
    THEN Lower[CHOOSE i \in 1..26 : Upper[i] = c]
    ELSE c

\* strings.ToLower
ToLower(s) == [i \in 1..Len(s) |-> LowerChar(s[i])]

IsDigit(c) == \E i \in 1..10 : Digits[i] = c
DigitVal(c) == (CHOOSE i \in 1..10 : Digits[i] = c) - 1

RECURSIVE DecVal(_)
DecVal(s) ==
    IF s = <<>> THEN 0
    ELSE DecVal(SubSeq(s, 1, Len(s) - 1)) * 10 + DigitVal(s[Len(s)])

\* strconv.Atoi: an optional sign, then one or more decimal digits; the
\* value is 0 on a syntax error.
Atoi(s) ==
    LET signed == Len(s) > 0 /\ s[1] \in {"-", "+"}
        body == IF signed THEN Tail(s) ELSE s
    IN  IF body = <<>> \/ (\E i \in 1..Len(body) : ~IsDigit(body[i]))
        THEN [err |-> TRUE, val |-> 0]
        ELSE [err |-> FALSE,
              val |-> IF signed /\ s[1] = "-" THEN 0 - DecVal(body) ELSE DecVal(body)]

\* time.ParseDuration's unitMap, in milliseconds; 0 stands for "not a unit".
unitMap(u) ==
    CASE u = <<"m","s">> -> 1
      [] u = <<"s">> -> 1000
      [] u = <<"m">> -> 60000
      [] u = <<"h">> -> 3600000
      [] OTHER -> 0

\* The number of leading characters of s that are digits (digit = TRUE) or
\* that are not (digit = FALSE).
RECURSIVE LeadingRun(_, _)
LeadingRun(s, digit) ==
    IF s = <<>> \/ IsDigit(s[1]) # digit THEN 0
    ELSE 1 + LeadingRun(Tail(s), digit)

\* The loop of time.ParseDuration: ([0-9]+[a-z]+)+, summed into d.
RECURSIVE ParseDurationLoop(_, _)
ParseDurationLoop(s, d) ==
    IF s = <<>> THEN [err |-> FALSE, val |-> d]
    ELSE IF ~IsDigit(s[1]) THEN [err |-> TRUE, val |-> 0]
    ELSE LET n == LeadingRun(s, TRUE)
             v == DecVal(SubSeq(s, 1, n))
             rest == SubSeq(s, n + 1, Len(s))
             i == LeadingRun(rest, FALSE)
             u == SubSeq(rest, 1, i)
         IN  IF i = 0 \/ unitMap(u) = 0 THEN [err |-> TRUE, val |-> 0]
             ELSE ParseDurationLoop(SubSeq(rest, i + 1, Len(rest)), d + v * unitMap(u))

\* time.ParseDuration: [-+]?([0-9]*[a-z]+)+, with "0" alone accepted.
ParseDuration(s) ==
    LET signed == Len(s) > 0 /\ s[1] \in {"-", "+"}
        neg == signed /\ s[1] = "-"
        body == IF signed THEN Tail(s) ELSE s
        r == ParseDurationLoop(body, 0)
    IN  IF body = <<"0">> THEN [err |-> FALSE, val |-> 0]
        ELSE IF body = <<>> THEN [err |-> TRUE, val |-> 0]
        ELSE IF r.err THEN r
        ELSE [err |-> FALSE, val |-> IF neg THEN 0 - r.val ELSE r.val]

---------------------------------------------------------------------------
(* r.URL.Query(): the raw query as a map from key to its values in order *)

\* The keys of url.Values: exact, case-sensitive.
QueryKeys(raw) == {raw[i].k : i \in 1..Len(raw)}

\* v[0]: the first value the raw query gives for key k.
FirstValue(raw, k) ==
    raw[CHOOSE i \in 1..Len(raw) :
            /\ raw[i].k = k
            /\ \A j \in 1..(i - 1) : raw[j].k # k].v

\* url.Values.Get: the first value of the exact key, "" when it is absent.
Get(raw, k) == IF k \in QueryKeys(raw) THEN FirstValue(raw, k) ELSE <<>>

\* The orders in which `for k, v := range params` may visit the keys: Go
\* leaves the iteration order of a map unspecified.
RangeOrders(raw) ==
    LET K == QueryKeys(raw)
    IN  {o \in [1..Cardinality(K) -> K] : \A k \in K : \E i \in DOMAIN o : o[i] = k}

---------------------------------------------------------------------------
(* parseParams, icmp_collector.go *)

\* The descriptor before the loop.
InitialParams(raw) ==
    [target   |-> Get(raw, <<"t","a","r","g","e","t">>),
     timeout  |-> defaultTimeout,
     interval |-> defaultInterval,
     count    |-> defaultCount,
     size     |-> defaultSize,
     ttl      |-> defaultTTL,
     protocol |-> defaultProtocol,
     packet   |-> defaultPacket]

\* The size a size input resolves to (strict bounds: not the code's).
sizeCaseStrict(v) ==
    LET a == Atoi(v)
    IN  IF ~a.err /\ a.val < maxPacketSize /\ a.val > minPacketSize
        THEN a.val ELSE defaultSize

\* case "size"
sizeCase(v) ==
    LET a == Atoi(v)
    IN  IF ~a.err /\ a.val <= maxPacketSize /\ a.val >= minPacketSize
        THEN a.val ELSE defaultSize

\* case "count"
countCase(v) ==
    LET a == Atoi(v)
    IN  IF ~a.err /\ a.val > 0 THEN a.val ELSE defaultCount

\* case "ttl"
ttlCase(v) ==
    LET a == Atoi(v)
    IN  IF ~a.err THEN a.val ELSE defaultTTL

\* case "timeout" and case "interval": on a parse error the field is left as it is.
durationCase(old, v) ==
    LET d == ParseDuration(v)
    IN  IF ~d.err THEN d.val ELSE old

\* case "protocol", "prot" and case "packet"
foldedCase(v, default) ==
    IF ToLower(v) # <<>> THEN ToLower(v) ELSE default

\* One pass of the loop body: the switch on strings.ToLower(k).
paramCase(p, k, v) ==
    LET lk == ToLower(k)
    IN  CASE lk = <<"t","a","r","g","e","t">> -> [p EXCEPT !.target = v]
          [] lk = <<"t","i","m","e","o","u","t">> ->
                [p EXCEPT !.timeout = durationCase(p.timeout, v)]
          [] lk = <<"i","n","t","e","r","v","a","l">> ->
                [p EXCEPT !.interval = durationCase(p.interval, v)]
          [] lk = <<"c","o","u","n","t">> -> [p EXCEPT !.count = countCase(v)]
          [] lk = <<"s","i","z","e">> -> [p EXCEPT !.size = sizeCase(v)]
          [] lk = <<"t","t","l">> -> [p EXCEPT !.ttl = ttlCase(v)]
          [] lk \in {<<"p","r","o","t","o","c","o","l">>, <<"p","r","o","t">>} ->
                [p EXCEPT !.protocol = foldedCase(v, defaultProtocol)]
          [] lk = <<"p","a","c","k","e","t">> ->
                [p EXCEPT !.packet = foldedCase(v, defaultPacket)]
          [] OTHER -> p

\* The loop over the map, visiting the keys in the order o.
RECURSIVE rangeParams(_, _, _)
rangeParams(p, raw, o) ==
    IF o = <<>> THEN p
    ELSE rangeParams(paramCase(p, o[1], FirstValue(raw, o[1])), raw, Tail(o))

parseParams(raw, o) == rangeParams(InitialParams(raw), raw, o)

---------------------------------------------------------------------------
(* parseParams, part_000 *)

sizeCasePart000(v) ==
    LET a == Atoi(v)
    IN  IF ~a.err /\ a.val < maxPacketSizePart000 /\ a.val > minPacketSizePart000
        THEN a.val ELSE defaultSize

paramCasePart000(p, k, v) ==
    LET lk == ToLower(k)
    IN  CASE lk = <<"t","a","r","g","e","t">> -> [p EXCEPT !.target = v]
          [] lk = <<"t","i","m","e","o","u","t">> ->
                [p EXCEPT !.timeout = durationCase(p.timeout, v)]
          [] lk = <<"i","n","t","e","r","v","a","l">> ->
                [p EXCEPT !.interval = durationCase(p.interval, v)]
          [] lk = <<"c","o","u","n","t">> -> [p EXCEPT !.count = countCase(v)]
          [] lk = <<"s","i","z","e">> -> [p EXCEPT !.size = sizeCasePart000(v)]
          [] lk = <<"t","t","l">> -> [p EXCEPT !.ttl = ttlCase(v)]
          [] lk = <<"p","r","o","t","o","c","o","l">> ->
                [p EXCEPT !.protocol = foldedCase(v, defaultProtocol)]
          [] lk = <<"p","a","c","k","e","t">> ->
                [p EXCEPT !.packet = foldedCase(v, defaultPacket)]
          [] OTHER -> p

RECURSIVE rangeParamsPart000(_, _, _)
rangeParamsPart000(p, raw, o) ==
    IF o = <<>> THEN p
    ELSE rangeParamsPart000(paramCasePart000(p, o[1], FirstValue(raw, o[1])), raw, Tail(o))

parseParamsPart000(raw, o) == rangeParamsPart000(InitialParams(raw), raw, o)

---------------------------------------------------------------------------
(* The inputs: query keys and values *)

SizeInputs == {<<"2","3">>, <<"2","4">>, <<"2","5">>, <<"1","0","2","3">>, <<"1","0","2","4">>, <<"6","5","5","0","7">>, <<"6","5","5","0","8">>, <<"a","b","c">>}

Pairs(K, V) == {[k |-> k, v |-> v] : k \in K, v \in V}

\* The key=value pairs a raw query is made of.
QueryPairs ==
    Pairs({<<"t","a","r","g","e","t">>}, {<<"a">>})
    \cup Pairs({<<"T","a","r","g","e","t">>}, {<<"b">>})
    \cup Pairs({<<"t","i","m","e","o","u","t">>}, {<<"0","s">>, <<"a","b","c">>})
    \cup Pairs({<<"i","n","t","e","r","v","a","l">>}, {<<"-","1","s">>, <<"2","m","s">>})
    \cup Pairs({<<"c","o","u","n","t">>}, {<<"3">>, <<"0">>})
    \cup Pairs({<<"C","O","U","N","T">>}, {<<"-","1">>, <<"a","b","c">>})
    \cup Pairs({<<"s","i","z","e">>}, SizeInputs)
    \cup Pairs({<<"t","t","l">>}, {<<"a","b","c">>})
    \cup Pairs({<<"p","r","o","t","o","c","o","l">>}, {<<"V","6">>, <<"6">>, <<>>, <<"U","D","P">>})
    \cup Pairs({<<"p","r","o","t">>}, {<<"i","p","6">>})
    \cup Pairs({<<"p","a","c","k","e","t">>}, {<<>>, <<"U","D","P">>})
    \cup Pairs({<<"f","o","o">>}, {<<"a">>})

Queries == UNION {[1..n -> QueryPairs] : n \in 0..MaxPairs}

---------------------------------------------------------------------------
(* State of the handler specifications, idle in SpecParse *)

Reqs == 1..MaxReq
Runs == 1..2

NoDesc == <<>>
NoResponse == <<>>

\* A probe's statistics: PacketsRecv and probing.Statistics' fields.
ZeroStats == [recv |-> 0, min |-> 0, avg |-> 0, max |-> 0, stddev |-> 0, loss |-> 0]
StatsSet ==
    {[recv |-> 0, min |-> 0, avg |-> 0, max |-> 0, stddev |-> 0, loss |-> 100],
     [recv |-> 1, min |-> 1, avg |-> 2, max |-> 3, stddev |-> 1, loss |-> 50]}

\* prometheus.NewGauge: a gauge starts at 0.
ZeroGauges ==
    [success |-> 0, timeout |-> 0, duration |-> 0,
     min |-> 0, avg |-> 0, max |-> 0, stddev |-> 0, loss |-> 0]

\* part_000's package-level gauges.
ZeroGaugesPart000 ==
    [duration |-> 0, min |-> 0, avg |-> 0, max |-> 0, stddev |-> 0, loss |-> 0]

\* A handler invocation before it starts.
IdleReq ==
    [pc         |-> "idle",      \* idle, running, set (part_000), serve, done
     query      |-> <<>>,        \* r.URL.Query()
     p          |-> InitialParams(<<>>),
     start      |-> 0,           \* start := time.Now()
     privileged |-> FALSE,       \* pinger.SetPrivileged
     network    |-> "",          \* the address family: "ip4", "ip6", "" for none
     failed     |-> "",          \* the step that returned an error: resolve, new, run
     finished   |-> FALSE,       \* the probe produced statistics
     stats      |-> ZeroStats,
     elapsed    |-> 0,           \* time.Since(start) as the probe finished
     probeEnd   |-> 0,           \* the clock as the probe step ended
     step       |-> 0,           \* part_000: the gauges set so far
     g          |-> ZeroGauges,  \* icmp_collector.go: this request's gauges
     response   |-> NoResponse,  \* the gauges as served
     served     |-> 0]           \* calls of serveMetricsWithError

---------------------------------------------------------------------------
(* SpecParse: parseParams applied to a query, twice by icmp_collector.go   *)
(* and once by part_000                                                    *)

InitParse ==
    /\ query \in Queries
    /\ desc = [i \in Runs |-> NoDesc]
    /\ descPart000 = NoDesc
    /\ now = 0
    /\ req = [r \in Reqs |-> IdleReq]
    /\ gauges = ZeroGaugesPart000

\* One call of parseParams (icmp_collector.go) on the query.
ParseRun(i) ==
    /\ desc[i] = NoDesc
    /\ \E o \in RangeOrders(query) :
           desc' = [desc EXCEPT ![i] = <<parseParams(query, o)>>]
    /\ UNCHANGED <<query, descPart000, now, req, gauges>>

\* One call of parseParams (part_000) on the query.
ParseRunPart000 ==
    /\ descPart000 = NoDesc
    /\ \E o \in RangeOrders(query) :
           descPart000' = <<parseParamsPart000(query, o)>>
    /\ UNCHANGED <<query, desc, now, req, gauges>>

NextParse ==
    \/ \E i \in Runs : ParseRun(i)
    \/ ParseRunPart000

SpecParse == InitParse /\ [][NextParse]_vars

---------------------------------------------------------------------------
(* The requests the handlers are given *)

Pair(k, v) == [k |-> k, v |-> v]

\* Three requests: the defaults; a short timeout over IPv6; the alias prot
\* with UDP packets.
HandlerQueries ==
    {<<Pair(<<"t","a","r","g","e","t">>, <<"a">>)>>,
     <<Pair(<<"t","a","r","g","e","t">>, <<"a">>), Pair(<<"t","i","m","e","o","u","t">>, <<"1","m","s">>), Pair(<<"P","r","o","t","o","c","o","l">>, <<"V","6">>)>>,
     <<Pair(<<"t","a","r","g","e","t">>, <<"a">>), Pair(<<"p","r","o","t">>, <<"i","p","6">>), Pair(<<"p","a","c","k","e","t">>, <<"U","D","P">>)>>}

\* The instants a reading of the clock may return: the clock never runs back.
Clock == now..MaxTime

---------------------------------------------------------------------------
(* PingHandler, icmp_collector.go *)

\* pinger.SetPrivileged
Privileged(p) == p.packet = <<"i","c","m","p">>

\* pinger.SetNetwork
Network(p) ==
    IF p.protocol = <<"v","6">> \/ p.protocol = <<"6">> \/ p.protocol = <<"i","p","6">>
    THEN "ip6" ELSE "ip4"

\* The classification with the no-reply check first (not the code's order).
ClassifyNoReplyFirst(g, recv, timeout, since1, since2) ==
    IF recv > 0 /\ timeout > since1
    THEN [g EXCEPT !.success = 1, !.timeout = 0]
    ELSE IF recv = 0
    THEN [g EXCEPT !.success = 0, !.timeout = 0]
    ELSE IF timeout < since2
    THEN [g EXCEPT !.timeout = 1, !.success = 0]
    ELSE g

\* OnFinish's if / else if chain: since1 and since2 are the two readings of
\* time.Since(start) it compares pinger.Timeout with.
Classify(g, recv, timeout, since1, since2) ==
    IF recv > 0 /\ timeout > since1
    THEN [g EXCEPT !.success = 1, !.timeout = 0]
    ELSE IF timeout < since2
    THEN [g EXCEPT !.timeout = 1, !.success = 0]
    ELSE IF recv = 0
    THEN [g EXCEPT !.success = 0, !.timeout = 0]
    ELSE g

\* The statistics gauges and the duration, set after the classification.
SetStatistics(g, stats, since) ==
    [g EXCEPT !.min = stats.min, !.avg = stats.avg, !.max = stats.max,
              !.stddev = stats.stddev, !.loss = stats.loss, !.duration = since]

\* The handler up to pinger.Run(): fresh gauges and registry, parseParams,
\* start := time.Now(), the pinger and its configuration.
PingHandlerStart(r) ==
    /\ req[r].pc = "idle"
    /\ \E q \in HandlerQueries : \E o \in RangeOrders(q) :
         LET p == parseParams(q, o)
         IN  req' = [req EXCEPT ![r] =
                    [@ EXCEPT !.pc = "running", !.query = q, !.p = p, !.start = now,
                              !.privileged = Privileged(p), !.network = Network(p),
                              !.g = ZeroGauges]]
    /\ UNCHANGED <<query, desc, descPart000, now, gauges>>

\* serveMetricsWithError: the registry's gauges are written to the response.
Served(rq, g) ==
    [rq EXCEPT !.pc = "done", !.response = <<g>>, !.served = @ + 1]

\* pinger.Run() returns an error before the probe finishes (resolution,
\* socket): OnFinish is not called, the error is logged and the metrics are
\* served.
RunError(r) ==
    /\ req[r].pc = "running"
    /\ \E t \in Clock :
         /\ now' = t
         /\ req' = [req EXCEPT ![r] =
                Served([@ EXCEPT !.failed = "run", !.probeEnd = t], req[r].g)]
    /\ UNCHANGED <<query, desc, descPart000, gauges>>

\* pinger.Run() finishes the probe and calls OnFinish(stats); the metrics
\* are served.  The clock is read at the log line (t0), in the two
\* comparisons (t1, t2) and for the duration gauge (t3).
OnFinish(r) ==
    /\ req[r].pc = "running"
    /\ \E stats \in StatsSet : \E t0 \in Clock :
       \E t1 \in t0..MaxTime : \E t2 \in t1..MaxTime : \E t3 \in t2..MaxTime :
         LET start == req[r].start
             g1 == Classify(req[r].g, stats.recv, req[r].p.timeout,
                            t1 - start, t2 - start)
             g2 == SetStatistics(g1, stats, t3 - start)
         IN  /\ now' = t3
             /\ req' = [req EXCEPT ![r] =
                    Served([@ EXCEPT !.finished = TRUE, !.stats = stats,
                                     !.elapsed = t0 - start, !.probeEnd = t3,
                                     !.g = g2], g2)]
    /\ UNCHANGED <<query, desc, descPart000, gauges>>

Init ==
    /\ query = <<>>
    /\ desc = [i \in Runs |-> NoDesc]
    /\ descPart000 = NoDesc
    /\ now = 0
    /\ req = [r \in Reqs |-> IdleReq]
    /\ gauges = ZeroGaugesPart000

Next ==
    \E r \in Reqs :
        \/ PingHandlerStart(r)
        \/ RunError(r)
        \/ OnFinish(r)

Spec == Init /\ [][Next]_vars

---------------------------------------------------------------------------
(* PingHandler, part_000 *)

\* net.ResolveIPAddr(network, address): the address families the lookup may
\* answer in; none for a network that is not "ip", "ip4" or "ip6"
\* (UnknownNetworkError).
ResolveFamilies(network) ==
    CASE network = <<"i","p","4">> -> {"ip4"}
      [] network = <<"i","p","6">> -> {"ip6"}
      [] network = <<"i","p">> -> {"ip4", "ip6"}
      [] OTHER -> {}

\* pinger.SetPrivileged: the test reads p.protocol.
PrivilegedPart000(p) == p.protocol = <<"i","c","m","p">>

\* The handler up to pinger.Run(): parseParams, start := time.Now(), a fresh
\* registry holding the package-level gauges, net.ResolveIPAddr,
\* probing.NewPinger and the pinger's configuration.  A failed step leaves
\* only serveMetricsWithError to do.
PingHandlerStartPart000(r) ==
    /\ req[r].pc = "idle"
    /\ \E q \in HandlerQueries : \E o \in RangeOrders(q) :
       \E outcome \in {"ok", "resolve", "new"} :
         LET p == parseParamsPart000(q, o)
             fams == ResolveFamilies(p.protocol)
             rq == [req[r] EXCEPT !.query = q, !.p = p, !.start = now,
                                  !.probeEnd = now]
         IN  IF fams = {}
             THEN /\ outcome = "resolve"
                  /\ req' = [req EXCEPT ![r] =
                         [rq EXCEPT !.pc = "serve", !.failed = "resolve"]]
             ELSE \E f \in fams :
                    req' = [req EXCEPT ![r] =
                        IF outcome = "ok"
                        THEN [rq EXCEPT !.pc = "running", !.network = f,
                                        !.privileged = PrivilegedPart000(p)]
                        ELSE [rq EXCEPT !.pc = "serve", !.network = f,
                                        !.failed = outcome]]
    /\ UNCHANGED <<query, desc, descPart000, now, gauges>>

\* pinger.Run() returns an error.
RunErrorPart000(r) ==
    /\ req[r].pc = "running"
    /\ \E t \in Clock :
         /\ now' = t
         /\ req' = [req EXCEPT ![r] =
                [@ EXCEPT !.pc = "serve", !.failed = "run", !.probeEnd = t]]
    /\ UNCHANGED <<query, desc, descPart000, gauges>>

\* pinger.Run() returns nil; stats := pinger.Statistics().
RunPart000(r) ==
    /\ req[r].pc = "running"
    /\ \E stats \in StatsSet : \E t \in Clock :
         /\ now' = t
         /\ req' = [req EXCEPT ![r] =
                [@ EXCEPT !.pc = "set", !.finished = TRUE, !.stats = stats,
                          !.elapsed = t - req[r].start, !.step = 0]]
    /\ UNCHANGED <<query, desc, descPart000, gauges>>

\* The six Set calls, in the order of the code.
GaugeOrderPart000 == <<"min", "avg", "max", "stddev", "loss", "duration">>

\* The next Set call on a package-level gauge; the last one reads the clock.
SetGaugePart000(r) ==
    /\ req[r].pc = "set"
    /\ LET k == req[r].step + 1
           name == GaugeOrderPart000[k]
       IN  IF name = "duration"
           THEN \E t \in Clock :
                  /\ now' = t
                  /\ gauges' = [gauges EXCEPT !.duration = t - req[r].start]
                  /\ req' = [req EXCEPT ![r] =
                         [@ EXCEPT !.pc = "serve", !.step = k, !.probeEnd = t]]
           ELSE /\ gauges' = [gauges EXCEPT ![name] = req[r].stats[name]]
                /\ req' = [req EXCEPT ![r] = [@ EXCEPT !.step = k]]
                /\ UNCHANGED now
    /\ UNCHANGED <<query, desc, descPart000>>

\* serveMetricsWithError: the registry's gauges, the package-level ones, are
\* written to the response.
serveMetricsWithErrorPart000(r) ==
    /\ req[r].pc = "serve"
    /\ req' = [req EXCEPT ![r] =
           [@ EXCEPT !.pc = "done", !.response = <<gauges>>, !.served = @ + 1]]
    /\ UNCHANGED <<query, desc, descPart000, now, gauges>>

NextPart000 ==
    \E r \in Reqs :
        \/ PingHandlerStartPart000(r)
        \/ RunErrorPart000(r)
        \/ RunPart000(r)
        \/ SetGaugePart000(r)
        \/ serveMetricsWithErrorPart000(r)

SpecPart000 == Init /\ [][NextPart000]_vars

---------------------------------------------------------------------------
(* Claims about parseParams, checked under SpecParse *)

\* The values the query gives (first value per key) for the keys that fold
\* to one of the names in `names`.
InputsFor(raw, names) ==
    {FirstValue(raw, k) : k \in {k \in QueryKeys(raw) : ToLower(k) \in names}}

\* C6: parseParams never fails and every descriptor it returns has
\* timeout > 0, interval > 0, count > 0 and 24 <= size <= the maximum size.
C6_DescriptorInRange ==
    \A i \in Runs :
        desc[i] # NoDesc =>
            LET p == desc[i][1]
            IN  /\ p.timeout > 0
                /\ p.interval > 0
                /\ p.count > 0
                /\ minPacketSize <= p.size /\ p.size <= maxPacketSize

\* C7 as stated: a size input is kept only when it is an integer strictly
\* between 24 and the maximum; every other size input, 24 and the maximum
\* included, resolves to 56.
C7_SizeStrictlyBetween ==
    \A i \in Runs :
        desc[i] # NoDesc =>
            LET sizes == InputsFor(query, {<<"s","i","z","e">>})
            IN  \/ sizes = {} /\ desc[i][1].size = 56
                \/ \E v \in sizes :
                     desc[i][1].size =
                        IF ~Atoi(v).err /\ 24 < Atoi(v).val /\ Atoi(v).val < 65507
                        THEN Atoi(v).val ELSE 56

\* C7 as amended: icmp_collector.go keeps a size input exactly when it is an
\* integer with 24 <= size <= 65507, both bounds included, and part_000
\* exactly when 24 < size < 1024; every other size input resolves to 56.
C7_SizeWithinBounds ==
    LET sizes == InputsFor(query, {<<"s","i","z","e">>})
    IN  /\ \A i \in Runs :
            desc[i] # NoDesc =>
                \/ sizes = {} /\ desc[i][1].size = 56
                \/ \E v \in sizes :
                     desc[i][1].size =
                        IF ~Atoi(v).err /\ 24 <= Atoi(v).val /\ Atoi(v).val <= 65507
                        THEN Atoi(v).val ELSE 56
        /\ descPart000 # NoDesc =>
                \/ sizes = {} /\ descPart000[1].size = 56
                \/ \E v \in sizes :
                     descPart000[1].size =
                        IF ~Atoi(v).err /\ 24 < Atoi(v).val /\ Atoi(v).val < 1024
                        THEN Atoi(v).val ELSE 56

\* C7's case: size=24 and size=65507 have been resolved, and kept, by
\* icmp_collector.go, and size=24 has been reset to 56 by part_000.
C7_Witness ==
    /\ query = <<Pair(<<"s","i","z","e">>, <<"2","4">>)>> \/ query = <<Pair(<<"s","i","z","e">>, <<"6","5","5","0","7">>)>>
    /\ desc[1] # NoDesc /\ desc[1][1].size \in {24, 65507}
    /\ descPart000 # NoDesc /\ descPart000[1].size = 56

\* C10: two runs of parseParams on the same query return the same descriptor.
C10_ParseDeterministic ==
    (desc[1] # NoDesc /\ desc[2] # NoDesc) => desc[1] = desc[2]

---------------------------------------------------------------------------
(* Claims about the handler of icmp_collector.go, checked under Spec *)

Done(r) == req[r].pc = "done"

\* C2: a probe that finishes with more time elapsed since the request's
\* start than the configured timeout is served as timeout=1, success=0,
\* whether packets were received or not.  The elapsed time is the one read
\* as OnFinish is entered.
C2_TimeoutPrecedence ==
    \A r \in Reqs :
        (Done(r) /\ req[r].finished /\ req[r].elapsed > req[r].p.timeout) =>
            /\ req[r].response[1].timeout = 1
            /\ req[r].response[1].success = 0

\* C2's case: two probes finished after their timeout and were served, one
\* with no packet received and one with packets received.
C2_Witness ==
    \E r1, r2 \in Reqs :
        /\ Done(r1) /\ req[r1].finished /\ req[r1].elapsed > req[r1].p.timeout
        /\ Done(r2) /\ req[r2].finished /\ req[r2].elapsed > req[r2].p.timeout
        /\ req[r1].stats.recv = 0 /\ req[r1].response[1].timeout = 1
        /\ req[r2].stats.recv > 0 /\ req[r2].response[1].timeout = 1

\* C3: a probe that finishes with at least one packet received and an
\* elapsed time not above the timeout (equal to it included) is served as
\* success=1, timeout=0.  The elapsed time is the last one OnFinish reads,
\* the one it serves as the duration: no earlier reading is above it.
C3_SuccessWithinTimeout ==
    \A r \in Reqs :
        (/\ Done(r) /\ req[r].finished
         /\ req[r].stats.recv > 0
         /\ req[r].response[1].duration <= req[r].p.timeout) =>
            /\ req[r].response[1].success = 1
            /\ req[r].response[1].timeout = 0

\* C5: in every response the duration gauge holds the time elapsed between
\* the request's start and the end of the probe step.
C5_DurationOnEveryPath ==
    \A r \in Reqs :
        Done(r) => req[r].response[1].duration = req[r].probeEnd - req[r].start

---------------------------------------------------------------------------
(* Claims that part_000's handler breaks, checked under SpecPart000; the   *)
(* handler of icmp_collector.go keeps each of them under Spec              *)

\* The protocol parameter of a request, case-folded: the values of the keys
\* protocol and prot.
ProtocolParam(r) ==
    {ToLower(v) : v \in InputsFor(req[r].query, {<<"p","r","o","t","o","c","o","l">>, <<"p","r","o","t">>})}

AskedForIPv6(r) == ProtocolParam(r) \cap {<<"v","6">>, <<"6">>, <<"i","p","6">>} # {}

\* C1: the statistics and the duration in a response are those of the
\* request's own probe.
C1_OwnResultOnly ==
    \A r \in Reqs :
        (Done(r) /\ req[r].finished) =>
            LET resp == req[r].response[1]
            IN  /\ resp.min = req[r].stats.min
                /\ resp.avg = req[r].stats.avg
                /\ resp.max = req[r].stats.max
                /\ resp.stddev = req[r].stats.stddev
                /\ resp.loss = req[r].stats.loss
                /\ resp.duration = req[r].probeEnd - req[r].start

\* C4: every request ends with exactly one response, and after a failed
\* resolution, construction or execution every statistic gauge in it is 0.
C4_FailureServesZeroes ==
    \A r \in Reqs :
        /\ req[r].served <= 1
        /\ Done(r) => req[r].served = 1
        /\ (Done(r) /\ req[r].failed # "") =>
              LET resp == req[r].response[1]
              IN  \A name \in DOMAIN resp \ {"duration"} : resp[name] = 0

\* C8: the address family is IPv6 exactly when the protocol parameter,
\* case-folded, is v6, 6 or ip6, and IPv4 for every other value.
C8_AddressFamily ==
    \A r \in Reqs :
        req[r].pc # "idle" =>
            req[r].network = IF AskedForIPv6(r) THEN "ip6" ELSE "ip4"

\* C9: a probe that is executed runs privileged exactly when the resolved
\* packet field is "icmp".
C9_PrivilegedIffIcmp ==
    \A r \in Reqs :
        (req[r].pc \in {"running", "set"} \/ req[r].finished \/ req[r].failed = "run") =>
            (req[r].privileged <=> req[r].p.packet = <<"i","c","m","p">>)

===========================================================================
